---- MODULE Spec2Model ----
(***************************************************************************)
(* bucketlib::bucket (include/bucket/bucket.hpp): a ROWS x COLS view over  *)
(* a flat, externally owned numeric container, with per-row sums           *)
(* (_p_sums), cumulative row sums (_p_cum_sums), a tracked range of        *)
(* affected rows and the query find_upper_bound.                           *)
(*                                                                         *)
(* value_type is modelled as an integer type (bucket<std::vector<int>>,    *)
(* the instantiation of the header's own example); indices are 0-based as  *)
(* in the source.                                                          *)
(***************************************************************************)
EXTENDS Integers, Sequences, FiniteSets, TLC

\* ---- the shape: bucket b(3, 3, data) ------------------------------------
ROWS == 3
COLS == 3

\* ---- bounds of the model ------------------------------------------------
MaxVal == 1
MaxWrites == 2
\* the most elements a container is short of ROWS * COLS
MaxPad == 1

\* ---- derived constants --------------------------------------------------
Size == ROWS * COLS
Values == 0..MaxVal
RowIdx == 0..(ROWS - 1)
CumIdx == 0..ROWS
\* numeric_limits<size_t>::max(), represented by the largest integer TLC
\* holds; it exceeds every index of the view
NOT_FOUND == 2147483647

VARIABLES
  vec,               \* the caller's container (_vector refers to it)
  n,                 \* vec.size()
  p_sums,            \* _p_sums
  p_cum_sums,        \* _p_cum_sums
  min_row_affected,  \* _min_row_affected
  max_row_affected,  \* _max_row_affected
  last,              \* the last call: name, argument, return value,
                     \* whether it started from a dirty range, the
                     \* container positions read and the error thrown
  touched,           \* update_sum_at_row ran since the last refresh/ctor
  stale,             \* rows holding a written element not yet re-aggregated
  writes,            \* number of writes to the container so far
  rc,                \* the refresh_cumsum call a thread is inside of: its
                     \* position, its locals l_row and diff, and whether
                     \* another thread's call ran since it began
  build              \* how the program was compiled: with NDEBUG or not,
                     \* with ENABLE_CHECKS or not

vars == <<vec, n, p_sums, p_cum_sums, min_row_affected, max_row_affected,
          last, touched, stale, writes, rc, build>>

Min(a, b) == IF a < b THEN a ELSE b
Max(a, b) == IF a > b THEN a ELSE b

\* ---- what a read of the container yields --------------------------------
\* Positions below vec.size() hold the caller's values.  The iterators of
\* update_sum_at_row and find_upper_bound run to row*COLS + COLS regardless
\* of vec.size(); a read at or past vec.size() is out of bounds and yields
\* whatever the memory holds (mem).
Mems == [n..(Size - 1) -> Values]
View(mem) == [i \in 0..(Size - 1) |-> IF i < n THEN vec[i] ELSE mem[i]]

\* std::accumulate(first, last, init) over the view
RECURSIVE Accumulate(_, _, _, _)
Accumulate(view, first, lst, init) ==
  IF first = lst THEN init
  ELSE Accumulate(view, first + 1, lst, init + view[first])

\* the value update_sum_at_row stores in _p_sums[row]
RowSumSkipsLast(view, row) ==
  Accumulate(view, row * COLS, row * COLS + COLS - 1, 0)
RowSum(view, row) ==
  Accumulate(view, row * COLS, row * COLS + COLS, 0)

\* the affected-row bookkeeping of update_sum_at_row
MinAfterRowCopy(mn, row) == IF row > mn THEN row ELSE mn
MinAfterRow(mn, row) == IF row < mn THEN row ELSE mn
MaxAfterRowCopy(mx, row) == IF row < mx THEN row ELSE mx
MaxAfterRow(mx, row) == IF row > mx THEN row ELSE mx

\* ---- update_cumsum: the loop over all rows -------------------------------
RECURSIVE CumLoop(_, _, _)
CumLoop(cum, sums, row) ==
  IF row < ROWS
    THEN CumLoop([cum EXCEPT ![row + 1] = cum[row] + sums[row]], sums, row + 1)
    ELSE cum
RECURSIVE CumLoopAdds(_, _, _)
CumLoopAdds(cum, sums, row) ==
  IF row < ROWS
    THEN CumLoopAdds([cum EXCEPT ![row + 1] = cum[row + 1] + sums[row]],
                     sums, row + 1)
    ELSE cum
UpdateCumsumAdds(cum, sums) == CumLoopAdds([cum EXCEPT ![0] = 0], sums, 0)
UpdateCumsumArr(cum, sums) == CumLoop([cum EXCEPT ![0] = 0], sums, 0)

\* ---- refresh_cumsum ------------------------------------------------------
\* first loop: rows l_row .. mx recomputed; yields the array and l_row
RECURSIVE RefreshLoop1(_, _, _, _)
RefreshLoop1(cum, sums, l_row, mx) ==
  IF l_row < mx + 1
    THEN RefreshLoop1([cum EXCEPT ![l_row + 1] = cum[l_row] + sums[l_row]],
                      sums, l_row + 1, mx)
    ELSE [cum |-> cum, l_row |-> l_row]
\* second loop: the rows after the affected range shifted by diff
RECURSIVE RefreshLoop2(_, _, _)
RefreshLoop2(cum, l_row, diff) ==
  IF l_row < ROWS
    THEN RefreshLoop2([cum EXCEPT ![l_row + 1] = cum[l_row + 1] - diff],
                      l_row + 1, diff)
    ELSE cum
RefreshShiftLate(cum, sums, mn, mx) ==
  LET r1 == RefreshLoop1(cum, sums, mn, mx)
      diff == cum[mx + 1] - r1.cum[mx + 1]
  IN  RefreshLoop2(r1.cum, r1.l_row + 1, diff)
RefreshNoShift(cum, sums, mn, mx) == RefreshLoop1(cum, sums, mn, mx).cum
RefreshAddsDiff(cum, sums, mn, mx) ==
  LET r1 == RefreshLoop1(cum, sums, mn, mx)
      diff == cum[mx + 1] - r1.cum[mx + 1]
  IN  RefreshLoop2(r1.cum, r1.l_row, 0 - diff)
RefreshCumsumArr(cum, sums, mn, mx) ==
  LET r1 == RefreshLoop1(cum, sums, mn, mx)
      diff == cum[mx + 1] - r1.cum[mx + 1]
  IN  RefreshLoop2(r1.cum, r1.l_row, diff)

\* the subscripts refresh_cumsum uses and the iterations of its two loops:
\* first loop, from l_row while l_row < mx + 1
RECURSIVE RefreshTrace1(_, _, _)
RefreshTrace1(l_row, mx, acc) ==
  IF l_row < mx + 1
    THEN RefreshTrace1(l_row + 1, mx,
                       [cum |-> acc.cum \cup {l_row, l_row + 1},
                        sums |-> acc.sums \cup {l_row},
                        iters |-> acc.iters + 1,
                        l_row |-> l_row + 1])
    ELSE acc
\* second loop, from where the first stopped while l_row < _ROWS
RECURSIVE RefreshTrace2(_, _)
RefreshTrace2(l_row, acc) ==
  IF l_row < ROWS
    THEN RefreshTrace2(l_row + 1,
                       [acc EXCEPT !.cum = @ \cup {l_row + 1},
                                   !.iters = @ + 1,
                                   !.l_row = l_row + 1])
    ELSE acc
\* a second loop that starts one row early
RefreshTraceInclusive(mn, mx) ==
  LET t1 == RefreshTrace1(mn, mx, [cum |-> {mx + 1}, sums |-> {},
                                   iters |-> 0, l_row |-> mn])
  IN  RefreshTrace2(t1.l_row - 1, [t1 EXCEPT !.cum = @ \cup {mx + 1}])
\* diff read at mx + 1, first loop, diff updated at mx + 1, second loop
RefreshTrace(mn, mx) ==
  LET t1 == RefreshTrace1(mn, mx, [cum |-> {mx + 1}, sums |-> {},
                                   iters |-> 0, l_row |-> mn])
  IN  RefreshTrace2(t1.l_row, [t1 EXCEPT !.cum = @ \cup {mx + 1}])

\* ---- find_upper_bound ----------------------------------------------------
\* std::upper_bound(first, first + len, val): binary search for the first
\* entry strictly greater than val
RECURSIVE UpperBound(_, _, _, _)
UpperBound(arr, first, len, val) ==
  IF len > 0
    THEN LET half == len \div 2
             middle == first + half
         IN  IF val < arr[middle]
               THEN UpperBound(arr, first, half, val)
               ELSE UpperBound(arr, middle + 1, len - half - 1, val)
    ELSE first

RowIndex(cum, val) == UpperBound(cum, 0, ROWS + 1, val) - 1

\* the scan of one row stopping only when temp exceeds val
RECURSIVE ScanStrict(_, _, _, _, _)
ScanStrict(view, index, end, temp, val) ==
  IF index = end THEN NOT_FOUND
  ELSE LET t == temp + view[index]
       IN  IF t > val THEN index
           ELSE ScanStrict(view, index + 1, end, t, val)

\* the scan of one row returning the position after the one that reached val
RECURSIVE ScanPastHit(_, _, _, _, _)
ScanPastHit(view, index, end, temp, val) ==
  IF index = end THEN NOT_FOUND
  ELSE LET t == temp + view[index]
       IN  IF t >= val THEN index + 1
           ELSE ScanPastHit(view, index + 1, end, t, val)

\* the scan of one row: for (; begin != end; ++begin, ++index)
RECURSIVE Scan(_, _, _, _, _)
Scan(view, index, end, temp, val) ==
  IF index = end THEN NOT_FOUND
  ELSE LET t == temp + view[index]
       IN  IF t >= val THEN index
           ELSE Scan(view, index + 1, end, t, val)

\* the positions the scan dereferences before it returns
RECURSIVE ScanReads(_, _, _, _, _)
ScanReads(view, index, end, temp, val) ==
  IF index = end THEN {}
  ELSE LET t == temp + view[index]
       IN  IF t >= val THEN {index}
           ELSE {index} \cup ScanReads(view, index + 1, end, t, val)
FindReads(cum, view, val) ==
  LET row_index == RowIndex(cum, val)
      index == row_index * COLS
  IN  ScanReads(view, index, index + COLS, cum[row_index], val)

FindScansToEnd(cum, view, val) ==
  LET row_index == RowIndex(cum, val)
      index == row_index * COLS
  IN  Scan(view, index, Size, cum[row_index], val)
FindFromZero(cum, view, val) ==
  LET row_index == RowIndex(cum, val)
      index == row_index * COLS
  IN  Scan(view, index, index + COLS, 0, val)
FindUpperBound(cum, view, val) ==
  LET row_index == RowIndex(cum, val)
      index == row_index * COLS
  IN  Scan(view, index, index + COLS, cum[row_index], val)

\* ---- construction --------------------------------------------------------
\* the containers the model constructs a bucket over: constant sequences
\* and ramps a, a+1, a+2, ... (such as the 1, 2, 3, ... of the header's
\* example) modulo MaxVal + 1, of length len
InitData(len) ==
  { [i \in 0..(len - 1) |-> (a + b * i) % (MaxVal + 1)] :
      a \in Values, b \in {0, 1} }
\* every container of length len over Values
AllData(len) == [0..(len - 1) -> Values]

\* the record of a call: what it was given and returned, whether it started
\* from a dirty range, the container positions it read (as offsets from
\* begin()) and the message of the std::runtime_error it threw ("" if none)
CallRec(op, arg, ret, mn, mx, reads, err) ==
  [op |-> op, arg |-> arg, ret |-> ret, dirty |-> ~(mn = ROWS /\ mx = 0),
   reads |-> reads, err |-> err]
Call(op, arg, ret, mn, mx) == CallRec(op, arg, ret, mn, mx, {}, "")

\* bucket(ROWS, COLS, other): update_sum(), update_cumsum(), then the
\* affected range is reset.  update_sum() compares rows against
\* _min_row_affected/_max_row_affected before they are first assigned;
\* whatever it leaves there is overwritten before the constructor returns,
\* and _p_sums does not depend on it.
\* no refresh_cumsum call is in progress
NoCall == [pc |-> "idle", l_row |-> 0, diff |-> 0, raced |-> FALSE]
Builds == [ndebug : BOOLEAN, checks : BOOLEAN]
\* neither NDEBUG nor ENABLE_CHECKS defined
PlainBuild == [ndebug |-> FALSE, checks |-> FALSE]
\* ENABLE_CHECKS defined
CheckedBuild == [ndebug |-> FALSE, checks |-> TRUE]

\* the constructor's body past the assertion
CtorIn(len, datas, b) ==
  /\ build = b
  /\ rc = NoCall
  /\ n = len
  /\ vec \in datas
  /\ \E mem \in Mems :
       /\ p_sums = [r \in RowIdx |-> RowSum(View(mem), r)]
       /\ p_cum_sums = UpdateCumsumArr([k \in CumIdx |-> 0], p_sums)
  /\ last = Call("ctor", 0, 0, ROWS, 0)
  /\ min_row_affected = ROWS
  /\ max_row_affected = 0
  /\ touched = FALSE
  /\ stale = {}
  /\ writes = 0
Ctor(len, datas) == CtorIn(len, datas, PlainBuild)

\* other.size() = ROWS * COLS
Init == Ctor(Size, InitData(Size))
\* other.size() = ROWS * COLS, any contents
InitQuery == Ctor(Size, AllData(Size))
\* other.size() <= ROWS * COLS
InitPad == \E len \in (Size - MaxPad)..Size : Ctor(len, InitData(len))

\* ---- the caller writes one element of its container ---------------------
Write ==
  /\ writes < MaxWrites
  /\ \E idx \in 0..(n - 1), v \in Values :
       /\ v # vec[idx]
       /\ vec' = [vec EXCEPT ![idx] = v]
       /\ stale' = stale \cup {idx \div COLS}
  /\ writes' = writes + 1
  /\ last' = Call("write", 0, 0, min_row_affected, max_row_affected)
  /\ UNCHANGED <<rc, build, n, p_sums, p_cum_sums, min_row_affected, max_row_affected,
                 touched>>

\* ---- update_sum_at_row(row), row < _ROWS ---------------------------------
\* a row update that also rebuilds the cumulative sums
UpdateSumAtRowEager(row, mem) ==
  /\ p_sums' = [p_sums EXCEPT ![row] = RowSum(View(mem), row)]
  /\ p_cum_sums' = UpdateCumsumArr(p_cum_sums, p_sums')
  /\ min_row_affected' = MinAfterRow(min_row_affected, row)
  /\ max_row_affected' = MaxAfterRow(max_row_affected, row)
  /\ touched' = TRUE
  /\ stale' = stale \ {row}
  /\ last' = CallRec("update_sum_at_row", row, 0,
                     min_row_affected, max_row_affected,
                     (row * COLS)..(row * COLS + COLS - 1), "")
  /\ UNCHANGED <<rc, build, vec, n, writes>>
\* the body after ROW_CHECK
UpdateSumAtRow(row, mem) ==
  /\ p_sums' = [p_sums EXCEPT ![row] = RowSum(View(mem), row)]
  /\ min_row_affected' = MinAfterRow(min_row_affected, row)
  /\ max_row_affected' = MaxAfterRow(max_row_affected, row)
  /\ touched' = TRUE
  /\ stale' = stale \ {row}
  /\ last' = CallRec("update_sum_at_row", row, 0,
                     min_row_affected, max_row_affected,
                     (row * COLS)..(row * COLS + COLS - 1), "")
  /\ UNCHANGED <<rc, build, vec, n, p_cum_sums, writes>>

update_sum_at_row == \E row \in RowIdx, mem \in Mems : UpdateSumAtRow(row, mem)

\* ---- update_sum(): update_sum_at_row for row = 0 .. _ROWS - 1 ------------
RECURSIVE RangeLoop(_, _)
RangeLoop(rng, row) ==
  IF row < ROWS
    THEN RangeLoop([mn |-> MinAfterRow(rng.mn, row),
                    mx |-> MaxAfterRow(rng.mx, row)], row + 1)
    ELSE rng

update_sum ==
  \E mem \in Mems :
    LET rng == RangeLoop([mn |-> min_row_affected,
                          mx |-> max_row_affected], 0)
    IN  /\ p_sums' = [r \in RowIdx |-> RowSum(View(mem), r)]
        /\ min_row_affected' = rng.mn
        /\ max_row_affected' = rng.mx
        /\ touched' = TRUE
        /\ stale' = {}
        /\ last' = CallRec("update_sum", 0, 0,
                           min_row_affected, max_row_affected,
                           0..(Size - 1), "")
        /\ UNCHANGED <<rc, build, vec, n, p_cum_sums, writes>>

\* ---- update_cumsum() -----------------------------------------------------
update_cumsum ==
  /\ p_cum_sums' = UpdateCumsumArr(p_cum_sums, p_sums)
  /\ min_row_affected' = ROWS
  /\ max_row_affected' = 0
  /\ touched' = FALSE
  /\ last' = Call("update_cumsum", 0, 0, min_row_affected, max_row_affected)
  /\ UNCHANGED <<rc, build, vec, n, p_sums, stale, writes>>

\* ---- refresh_cumsum() ----------------------------------------------------
refresh_keeps_range ==
  /\ p_cum_sums' = RefreshCumsumArr(p_cum_sums, p_sums,
                                    min_row_affected, max_row_affected)
  /\ touched' = FALSE
  /\ last' = Call("refresh_cumsum", 0, 0, min_row_affected, max_row_affected)
  /\ UNCHANGED <<rc, build, vec, n, p_sums, stale, writes,
                 min_row_affected, max_row_affected>>
refresh_cumsum ==
  /\ p_cum_sums' = RefreshCumsumArr(p_cum_sums, p_sums,
                                    min_row_affected, max_row_affected)
  /\ min_row_affected' = ROWS
  /\ max_row_affected' = 0
  /\ touched' = FALSE
  /\ last' = Call("refresh_cumsum", 0, 0, min_row_affected, max_row_affected)
  /\ UNCHANGED <<rc, build, vec, n, p_sums, stale, writes>>

\* ---- find_upper_bound(val), 0 < val < _p_cum_sums.back() -----------------
\* a query that first brings the cumulative sums up to date
FindCallRefreshes(val, mem) ==
  /\ p_cum_sums' = RefreshCumsumArr(p_cum_sums, p_sums, min_row_affected,
                                    max_row_affected)
  /\ min_row_affected' = ROWS
  /\ max_row_affected' = 0
  /\ touched' = FALSE
  /\ last' = CallRec("find_upper_bound", val,
                     FindUpperBound(p_cum_sums', View(mem), val),
                     min_row_affected, max_row_affected,
                     FindReads(p_cum_sums', View(mem), val), "")
  /\ UNCHANGED <<rc, build, vec, n, p_sums, stale, writes>>
\* the body after the two VAL_CHECKs, for a val they would let through
FindCall(val, mem) ==
  /\ last' = CallRec("find_upper_bound", val,
                     FindUpperBound(p_cum_sums, View(mem), val),
                     min_row_affected, max_row_affected,
                     FindReads(p_cum_sums, View(mem), val), "")
  /\ UNCHANGED <<rc, build, vec, n, p_sums, p_cum_sums, min_row_affected,
                 max_row_affected, touched, stale, writes>>

find_upper_bound ==
  \E val \in 1..(p_cum_sums[ROWS] - 1), mem \in Mems : FindCall(val, mem)

Next ==
  \/ Write
  \/ update_sum_at_row
  \/ update_sum
  \/ update_cumsum
  \/ refresh_cumsum
  \/ find_upper_bound

\* the operations that change the bucket or its container
NextMutators ==
  \/ Write
  \/ update_sum_at_row
  \/ update_sum
  \/ update_cumsum
  \/ refresh_cumsum

\* every operation, on a container that fills the view
Spec == Init /\ [][Next]_vars
\* the mutate / update-row / refresh protocol without queries
SpecMutators == Init /\ [][NextMutators]_vars
\* queries of a freshly constructed bucket over any container
SpecQuery == InitQuery /\ [][find_upper_bound]_vars
\* every operation, on a container that may be shorter than the view
SpecPad == InitPad /\ [][Next]_vars

\* ---- the accessors --------------------------------------------------------
\* a member function that only returns a value
Reader(op, arg, ret) ==
  /\ last' = Call(op, arg, ret, min_row_affected, max_row_affected)
  /\ UNCHANGED <<rc, build, vec, n, p_sums, p_cum_sums, min_row_affected,
                 max_row_affected, touched, stale, writes>>

get_size == Reader("get_size", 0, Size)
get_rows == Reader("get_rows", 0, ROWS)
get_cols == Reader("get_cols", 0, COLS)
get_min_row_affected == Reader("get_min_row_affected", 0, min_row_affected)
get_max_row_affected == Reader("get_max_row_affected", 0, max_row_affected)
get_sums == Reader("get_sums", 0, p_sums)
get_cumsums == Reader("get_cumsums", 0, p_cum_sums)
\* print(): the entries of _p_cum_sums go to std::cout
print == Reader("print", 0, p_cum_sums)

\* is_valid_index(index)
IsValidIndex(index) == index # NOT_FOUND
is_valid_index ==
  \E index \in {0, Size - 1, NOT_FOUND} :
    Reader("is_valid_index", index, IsValidIndex(index))

\* ---- the build with ENABLE_CHECKS ---------------------------------------
\* ROW_CHECK / VAL_CHECK: throw std::runtime_error(msg); nothing after the
\* macro runs
Throw(op, arg, msg) ==
  /\ last' = CallRec(op, arg, 0, min_row_affected, max_row_affected, {}, msg)
  /\ UNCHANGED <<rc, build, vec, n, p_sums, p_cum_sums, min_row_affected,
                 max_row_affected, touched, stale, writes>>

\* update_sum_at_row(row) for any row the caller passes
update_sum_at_row_late_check ==
  \E row \in 0..(ROWS + 1) :
    IF row < ROWS
      THEN \E mem \in Mems : UpdateSumAtRow(row, mem)
      ELSE /\ min_row_affected' = MinAfterRow(min_row_affected, row)
           /\ max_row_affected' = MaxAfterRow(max_row_affected, row)
           /\ last' = CallRec("update_sum_at_row", row, 0, min_row_affected,
                              max_row_affected, {}, "Row index out of range")
           /\ UNCHANGED <<rc, build, vec, n, p_sums, p_cum_sums, touched, stale, writes>>
update_sum_at_row_checked ==
  \E row \in 0..(ROWS + 1) :
    IF row < ROWS
      THEN \E mem \in Mems : UpdateSumAtRow(row, mem)
      ELSE Throw("update_sum_at_row", row, "Row index out of range")

\* find_upper_bound(val) for any val the caller passes
find_upper_bound_not_found ==
  \E val \in (0 - 1)..(p_cum_sums[ROWS] + 1) :
    IF ~(val > 0) \/ ~(val < p_cum_sums[ROWS])
      THEN Reader("find_upper_bound", val, NOT_FOUND)
      ELSE \E mem \in Mems : FindCall(val, mem)
find_upper_bound_checked ==
  \E val \in (0 - 1)..(p_cum_sums[ROWS] + 1) :
    IF ~(val > 0)
      THEN Throw("find_upper_bound", val,
                 "In upper limit, the value passed is smaller than the first element")
    ELSE IF ~(val < p_cum_sums[ROWS])
      THEN Throw("find_upper_bound", val,
                 "In upper limit, the value passed is bigger or equal to the last element")
    ELSE \E mem \in Mems : FindCall(val, mem)

\* ---- the build without ENABLE_CHECKS: find_upper_bound(val), any val ----
\* what memory outside the container and outside _p_cum_sums may hold
Garbage == Values
\* row_index = _ROWS (no entry of _p_cum_sums exceeds val): the scan starts
\* at begin() + _ROWS * _COLS, past the view
FindPastEnd(val) ==
  \E g \in [Size..(Size + COLS - 1) -> Garbage] :
    /\ last' = CallRec("find_upper_bound", val,
                       Scan(g, Size, Size + COLS, p_cum_sums[ROWS], val),
                       min_row_affected, max_row_affected,
                       ScanReads(g, Size, Size + COLS, p_cum_sums[ROWS], val),
                       "")
    /\ UNCHANGED <<rc, build, vec, n, p_sums, p_cum_sums, min_row_affected,
                   max_row_affected, touched, stale, writes>>
\* row_index = 0 - 1 wraps to the largest size_t (val is below
\* _p_cum_sums[0]): temp is read outside _p_cum_sums (t0), index wraps to
\* COLS below 0 and the scan runs over the COLS positions before begin()
FindBeforeBegin(val) ==
  \E t0 \in Garbage, g \in [(0 - COLS)..(0 - 1) -> Garbage] :
    LET k == Scan(g, 0 - COLS, 0, t0, val)
    IN  /\ last' = CallRec("find_upper_bound", val,
                           IF k = NOT_FOUND THEN NOT_FOUND
                                            ELSE NOT_FOUND + (1 + k),
                           min_row_affected, max_row_affected,
                           ScanReads(g, 0 - COLS, 0, t0, val), "")
        /\ UNCHANGED <<rc, build, vec, n, p_sums, p_cum_sums, min_row_affected,
                       max_row_affected, touched, stale, writes>>

find_upper_bound_unchecked ==
  \E val \in (0 - 1)..(p_cum_sums[ROWS] + 1) :
    LET pos == UpperBound(p_cum_sums, 0, ROWS + 1, val)
    IN  \/ pos \in 1..ROWS /\ \E mem \in Mems : FindCall(val, mem)
        \/ pos = ROWS + 1 /\ FindPastEnd(val)
        \/ pos = 0 /\ FindBeforeBegin(val)

\* ---- further containers and specifications ------------------------------
\* {1, 2, 3, 4, 5, 6, 7, 8, 9}: the header's example, the test's data x 10
ExampleData == [i \in 0..(Size - 1) |-> i + 1]
InitExample == Ctor(Size, {ExampleData})
InitChecked == CtorIn(Size, {ExampleData}, CheckedBuild)
\* 1, 2, ..., MaxVal, 0, 1, ...: the ramp of InitData that starts at 1
Ramp == [i \in 0..(Size - 1) |-> (1 + i) % (MaxVal + 1)]
InitRamp == Ctor(Size, {Ramp})
\* every container whose elements are 0 or the largest value
ExtremeData == [0..(Size - 1) -> {0, MaxVal}]
InitExtremes == Ctor(Size, ExtremeData)

\* the member functions with arguments in range, no write to the container
NextCalls ==
  \/ update_sum_at_row
  \/ update_sum
  \/ update_cumsum
  \/ refresh_cumsum
  \/ find_upper_bound

\* the caller's first write to its container
WriteFirst == writes = 0 /\ Write

\* one write by the caller and every member function, built with
\* ENABLE_CHECKS, with arguments in and out of range
NextChecked ==
  \/ WriteFirst
  \/ update_sum_at_row_checked
  \/ update_sum
  \/ update_cumsum
  \/ refresh_cumsum
  \/ find_upper_bound_checked
  \/ is_valid_index
  \/ get_size
  \/ get_rows
  \/ get_cols
  \/ get_min_row_affected
  \/ get_max_row_affected
  \/ get_sums
  \/ get_cumsums
  \/ print

\* the header's example
SpecExample == InitExample /\ [][NextCalls]_vars
\* one container, written and restored
SpecRamp == InitRamp /\ [][NextMutators]_vars
\* the build with ENABLE_CHECKS
SpecChecked == InitChecked /\ [][NextChecked]_vars
\* the build without ENABLE_CHECKS, queried with any val
SpecUnchecked == InitExtremes /\ [][find_upper_bound_unchecked]_vars

\* ---- the benchmark's sequential reference --------------------------------
\* std::partial_sum(data.begin(), data.end(), prefix.begin() + 1) into a
\* prefix of data.size() + 1 zeros
RECURSIVE PartialSum(_, _, _)
PartialSum(data, prefix, i) ==
  IF i = Size THEN prefix
  ELSE PartialSum(data, [prefix EXCEPT ![i + 1] = prefix[i] + data[i]], i + 1)
sequential_upper_bound(data, val) ==
  LET prefix == PartialSum(data, [j \in 0..Size |-> 0], 0)
      it == UpperBound(prefix, 0, Size + 1, val)
  IN  IF it = Size + 1 THEN NOT_FOUND ELSE it - 1

\* ---- value_type = uint16_t: arithmetic modulo 2^Width ---------------------
Width == 16
Modulus == 2 ^ Width
\* the conversion of an int result back to value_type
Wrap(x) == x % Modulus

RECURSIVE CumLoopU(_, _, _)
CumLoopU(cum, sums, row) ==
  IF row < ROWS
    THEN CumLoopU([cum EXCEPT ![row + 1] = Wrap(cum[row] + sums[row])],
                  sums, row + 1)
    ELSE cum
UpdateCumsumArrU(cum, sums) == CumLoopU([cum EXCEPT ![0] = 0], sums, 0)

RECURSIVE RefreshLoop1U(_, _, _, _)
RefreshLoop1U(cum, sums, l_row, mx) ==
  IF l_row < mx + 1
    THEN RefreshLoop1U([cum EXCEPT ![l_row + 1] =
                          Wrap(cum[l_row] + sums[l_row])],
                       sums, l_row + 1, mx)
    ELSE [cum |-> cum, l_row |-> l_row]
RECURSIVE RefreshLoop2U(_, _, _)
RefreshLoop2U(cum, l_row, diff) ==
  IF l_row < ROWS
    THEN RefreshLoop2U([cum EXCEPT ![l_row + 1] = Wrap(cum[l_row + 1] - diff)],
                       l_row + 1, diff)
    ELSE cum
\* diff = old entry; diff -= new entry
RefreshDiffU(cum, newcum, mx) == Wrap(cum[mx + 1] - newcum[mx + 1])
\* the later entries kept in a wider type than diff
RefreshCumsumArrWide(cum, sums, mn, mx) ==
  LET r1 == RefreshLoop1U(cum, sums, mn, mx)
  IN  RefreshLoop2(r1.cum, r1.l_row, RefreshDiffU(cum, r1.cum, mx))
RefreshCumsumArrU(cum, sums, mn, mx) ==
  LET r1 == RefreshLoop1U(cum, sums, mn, mx)
  IN  RefreshLoop2U(r1.cum, r1.l_row, RefreshDiffU(cum, r1.cum, mx))

update_sum_at_row_u ==
  \E row \in RowIdx, mem \in Mems :
    /\ p_sums' = [p_sums EXCEPT ![row] = Wrap(RowSum(View(mem), row))]
    /\ min_row_affected' = MinAfterRow(min_row_affected, row)
    /\ max_row_affected' = MaxAfterRow(max_row_affected, row)
    /\ touched' = TRUE
    /\ stale' = stale \ {row}
    /\ last' = CallRec("update_sum_at_row", row, 0,
                       min_row_affected, max_row_affected,
                       (row * COLS)..(row * COLS + COLS - 1), "")
    /\ UNCHANGED <<rc, build, vec, n, p_cum_sums, writes>>

update_cumsum_u ==
  /\ p_cum_sums' = UpdateCumsumArrU(p_cum_sums, p_sums)
  /\ min_row_affected' = ROWS
  /\ max_row_affected' = 0
  /\ touched' = FALSE
  /\ last' = Call("update_cumsum", 0, 0, min_row_affected, max_row_affected)
  /\ UNCHANGED <<rc, build, vec, n, p_sums, stale, writes>>

\* last.ret keeps the value the local diff had
refresh_cumsum_u ==
  /\ p_cum_sums' = RefreshCumsumArrU(p_cum_sums, p_sums,
                                     min_row_affected, max_row_affected)
  /\ min_row_affected' = ROWS
  /\ max_row_affected' = 0
  /\ touched' = FALSE
  /\ last' = Call("refresh_cumsum", 0,
                  RefreshDiffU(p_cum_sums,
                               RefreshLoop1U(p_cum_sums, p_sums,
                                             min_row_affected,
                                             max_row_affected).cum,
                               max_row_affected),
                  min_row_affected, max_row_affected)
  /\ UNCHANGED <<rc, build, vec, n, p_sums, stale, writes>>

NextUnsigned ==
  \/ Write
  \/ update_sum_at_row_u
  \/ update_cumsum_u
  \/ refresh_cumsum_u

\* a bucket over std::vector<uint16_t>
SpecUnsigned == InitRamp /\ [][NextUnsigned]_vars

\* ---- two threads on one bucket, no mutual exclusion ----------------------
\* one thread is inside refresh_cumsum, statement by statement; the other
\* calls update_sum_at_row
\* update_sum_at_row(row) by the other thread; rc.raced records that it ran
\* while the refresh_cumsum call was in progress. One such call is followed:
\* each further one lets _p_cum_sums drift further, without bound
update_sum_at_row_t ==
  \E row \in RowIdx, mem \in Mems :
    /\ rc.pc = "idle" \/ ~rc.raced
    /\ p_sums' = [p_sums EXCEPT ![row] = RowSum(View(mem), row)]
    /\ min_row_affected' = MinAfterRow(min_row_affected, row)
    /\ max_row_affected' = MaxAfterRow(max_row_affected, row)
    /\ touched' = TRUE
    /\ stale' = stale \ {row}
    /\ last' = CallRec("update_sum_at_row", row, 0,
                       min_row_affected, max_row_affected,
                       (row * COLS)..(row * COLS + COLS - 1), "")
    /\ rc' = [rc EXCEPT !.raced = @ \/ (rc.pc # "idle")]
    /\ UNCHANGED <<build, vec, n, p_cum_sums, writes>>

\* value_type diff = _p_cum_sums[_max_row_affected + 1];
\* std::size_t l_row = _min_row_affected;
refresh_begin ==
  /\ rc.pc = "idle"
  /\ rc' = [pc |-> "loop1", l_row |-> min_row_affected,
            diff |-> p_cum_sums[max_row_affected + 1], raced |-> rc.raced]
  /\ last' = Call("refresh_cumsum", 0, 0, min_row_affected, max_row_affected)
  /\ UNCHANGED <<build, vec, n, p_sums, p_cum_sums, min_row_affected,
                 max_row_affected, touched, stale, writes>>

\* a first loop that advances without recomputing the entry
refresh_loop1_skips ==
  /\ rc.pc = "loop1"
  /\ IF rc.l_row < max_row_affected + 1
       THEN rc' = [rc EXCEPT !.l_row = @ + 1]
       ELSE rc' = [rc EXCEPT !.pc = "loop2",
                             !.diff = @ - p_cum_sums[max_row_affected + 1]]
  /\ UNCHANGED <<build, vec, n, p_sums, p_cum_sums, min_row_affected,
                 max_row_affected, last, touched, stale, writes>>
\* one test of the first loop: an iteration, or the exit and
\* diff -= _p_cum_sums[_max_row_affected + 1]
refresh_loop1 ==
  /\ rc.pc = "loop1"
  /\ IF rc.l_row < max_row_affected + 1
       THEN /\ p_cum_sums' = [p_cum_sums EXCEPT ![rc.l_row + 1] =
                                p_cum_sums[rc.l_row] + p_sums[rc.l_row]]
            /\ rc' = [rc EXCEPT !.l_row = @ + 1]
       ELSE /\ rc' = [rc EXCEPT !.pc = "loop2",
                                !.diff = @ - p_cum_sums[max_row_affected + 1]]
            /\ UNCHANGED p_cum_sums
  /\ UNCHANGED <<build, vec, n, p_sums, min_row_affected, max_row_affected,
                 last, touched, stale, writes>>

\* one test of the second loop: an iteration, or the exit
refresh_loop2 ==
  /\ rc.pc = "loop2"
  /\ IF rc.l_row < ROWS
       THEN /\ p_cum_sums' = [p_cum_sums EXCEPT ![rc.l_row + 1] = @ - rc.diff]
            /\ rc' = [rc EXCEPT !.l_row = @ + 1]
       ELSE /\ rc' = [rc EXCEPT !.pc = "reset"]
            /\ UNCHANGED p_cum_sums
  /\ UNCHANGED <<build, vec, n, p_sums, min_row_affected, max_row_affected,
                 last, touched, stale, writes>>

\* _min_row_affected = _ROWS; _max_row_affected = 0; and the return
refresh_reset ==
  /\ rc.pc = "reset"
  /\ min_row_affected' = ROWS
  /\ max_row_affected' = 0
  /\ touched' = FALSE
  /\ rc' = [NoCall EXCEPT !.raced = rc.raced]
  /\ UNCHANGED <<build, vec, n, p_sums, p_cum_sums, last, stale, writes>>

NextThreads ==
  \/ WriteFirst
  \/ update_sum_at_row_t
  \/ refresh_begin
  \/ refresh_loop1
  \/ refresh_loop2
  \/ refresh_reset

SpecThreads == InitRamp /\ [][NextThreads]_vars

\* ---- construction over a container of any length, in any build -----------
AssertionFailed == "Assertion `other.size() <= ROWS * COLS' failed."
\* assert(...) aborts the process: _p_sums and _p_cum_sums are still the
\* empty vectors they were default-constructed as; the affected range is
\* not initialised and never read
CtorAborts(len, datas, b) ==
  /\ build = b
  /\ rc = NoCall
  /\ n = len
  /\ vec \in datas
  /\ p_sums = << >>
  /\ p_cum_sums = << >>
  /\ last = CallRec("ctor", len, 0, ROWS, 0, {}, AssertionFailed)
  /\ min_row_affected = 0
  /\ max_row_affected = 0
  /\ touched = FALSE
  /\ stale = {}
  /\ writes = 0
\* a constructor that asserts after update_sum() and update_cumsum()
ConstructLateAssert(len, datas, b) ==
  IF ~b.ndebug /\ ~(len <= ROWS * COLS)
    THEN /\ build = b
         /\ rc = NoCall
         /\ n = len
         /\ vec \in datas
         /\ \E mem \in Mems :
              /\ p_sums = [r \in RowIdx |-> RowSum(View(mem), r)]
              /\ p_cum_sums = UpdateCumsumArr([k \in CumIdx |-> 0], p_sums)
         /\ last = CallRec("ctor", len, 0, ROWS, 0, {}, AssertionFailed)
         /\ min_row_affected = 0
         /\ max_row_affected = 0
         /\ touched = FALSE
         /\ stale = {}
         /\ writes = 0
    ELSE CtorIn(len, datas, b)
\* bucket(ROWS, COLS, other): assert(other.size() <= ROWS * COLS) is
\* compiled out with NDEBUG
Construct(len, datas, b) ==
  IF ~b.ndebug /\ ~(len <= ROWS * COLS)
    THEN CtorAborts(len, datas, b)
    ELSE CtorIn(len, datas, b)

InitAnyLength ==
  \E len \in (Size - MaxPad)..(Size + MaxPad), b \in Builds :
    Construct(len, InitData(len), b)

\* the process ended in the constructor
Aborted == last.op = "ctor" /\ last.err # ""

\* the calls a program makes on the bucket it constructed
NextBuilt ==
  \/ ~Aborted /\ build.checks /\ update_sum_at_row_checked
  \/ ~Aborted /\ ~build.checks /\ update_sum_at_row
  \/ ~Aborted /\ update_cumsum
  \/ ~Aborted /\ refresh_cumsum
  \/ ~Aborted /\ build.checks /\ find_upper_bound_checked
  \/ ~Aborted /\ ~build.checks /\ find_upper_bound

SpecCtor == InitAnyLength /\ [][NextBuilt]_vars

\* ==== reference notions the properties are stated with ====================
\* sum of the first k elements of the container
RECURSIVE SumTo(_, _)
SumTo(f, k) == IF k = 0 THEN 0 ELSE SumTo(f, k - 1) + f[k - 1]

\* the affected range is the sentinel pair (clean)
IsSentinel == min_row_affected = ROWS /\ max_row_affected = 0
\* the container fills the view and every row sum matches its elements
Synced ==
  /\ n = Size
  /\ \A r \in RowIdx :
       p_sums[r] = SumTo(vec, (r + 1) * COLS) - SumTo(vec, r * COLS)
\* the prefix recurrence over the row sums
CumConsistent ==
  /\ p_cum_sums[0] = 0
  /\ \A k \in RowIdx : p_cum_sums[k + 1] = p_cum_sums[k] + p_sums[k]
\* smallest index whose inclusive running total reaches t
NaiveIndex(t) ==
  CHOOSE i \in 0..(Size - 1) :
    /\ SumTo(vec, i + 1) >= t
    /\ \A j \in 0..(i - 1) : SumTo(vec, j + 1) < t
\* the view of a container that fills it (no position is out of bounds)
FullView == View(CHOOSE mem \in Mems : TRUE)

\* ==== C1 ==================================================================
\* C1: in a clean state whose row sums match a non-negative container of
\* length ROWS*COLS, find_upper_bound(t) with 0 < t < CumRowSums[ROWS]
\* returns the smallest index whose inclusive running total is >= t, also
\* when t equals an interior cumulative row boundary.
C1_SmallestIndex ==
  ( /\ last.op = "find_upper_bound"
    /\ IsSentinel /\ Synced /\ CumConsistent
    /\ 0 < last.arg /\ last.arg < p_cum_sums[ROWS] )
  => last.ret = NaiveIndex(last.arg)

\* ==== C2 ==================================================================
\* C2: refresh equivalence: whatever writes and update_sum_at_row calls came
\* before, the array refresh_cumsum() leaves is the array update_cumsum()
\* computes from the same row sums.
C2_RefreshEquivalence ==
  last.op = "refresh_cumsum"
  => p_cum_sums = UpdateCumsumArr(p_cum_sums, p_sums)
\* an incremental refresh of a dirty range, all written rows re-aggregated
C2_Witness ==
  /\ last.op = "refresh_cumsum"
  /\ last.dirty
  /\ writes > 0 /\ stale = {}
  /\ p_sums[1] # SumTo(vec, COLS) /\ p_sums[1] > 0

\* ==== C3 ==================================================================
\* C3: lazy-update protocol: after a refresh (either kind) that follows
\* update_sum_at_row for every row with a written element, each row sum is
\* the sum of its row and CumRowSums[k] is the sum of the first k*COLS
\* elements, so CumRowSums[ROWS] is the container's total.
C3_ProtocolCorrect ==
  ( /\ last.op \in {"refresh_cumsum", "update_cumsum"}
    /\ stale = {} /\ n = Size )
  => /\ \A r \in RowIdx :
          p_sums[r] = SumTo(vec, (r + 1) * COLS) - SumTo(vec, r * COLS)
     /\ \A k \in CumIdx : p_cum_sums[k] = SumTo(vec, k * COLS)
\* a round that completed after the second write
C3_Witness ==
  /\ last.op = "refresh_cumsum"
  /\ stale = {} /\ writes = 2
  /\ last.dirty
  /\ p_cum_sums[ROWS] > 0

\* ==== C4 ==================================================================
\* C4: clean-state consistency: whenever the affected range is the
\* sentinel, CumRowSums[0] = 0 and CumRowSums[k+1] = CumRowSums[k] +
\* RowSums[k], also when elements were written without update_sum_at_row.
C4_CleanConsistent == IsSentinel => CumConsistent
\* clean after an incremental refresh, with a written row not re-aggregated
C4_Witness ==
  /\ IsSentinel
  /\ last.op = "refresh_cumsum"
  /\ last.dirty
  /\ stale # {}
  /\ p_cum_sums[ROWS] > 0

\* ==== C5 ==================================================================
\* C5: shape invariant with zero padding: with a container shorter than
\* ROWS*COLS the positions past its end count as 0, so after construction
\* CumRowSums[ROWS] is the sum of its elements, and update_sum_at_row on a
\* partially filled row sums only the elements that exist.
C5_ZeroPadding ==
  /\ last.op = "ctor" => p_cum_sums[ROWS] = SumTo(vec, n)
  /\ ( /\ last.op = "update_sum_at_row"
       /\ last.arg * COLS < n /\ n < (last.arg + 1) * COLS )
     => p_sums[last.arg] = SumTo(vec, n) - SumTo(vec, last.arg * COLS)

\* ==== C6 ==================================================================
\* C6: dirty-range reset: right after construction, update_cumsum() or
\* refresh_cumsum() the affected range is the sentinel (ROWS, 0).
C6_RangeReset ==
  last.op \in {"ctor", "update_cumsum", "refresh_cumsum"} => IsSentinel
\* a refresh that started from a dirty range
C6_Witness ==
  /\ last.op = "refresh_cumsum"
  /\ last.dirty
  /\ IsSentinel

\* ==== C7 ==================================================================
\* C7: update_sum_at_row(row) leaves minRow = min(old minRow, row) and
\* maxRow = max(old maxRow, row), and between two refreshes the range only
\* widens.
C7_RangeExtends ==
  [][ /\ last'.op = "update_sum_at_row"
        => /\ min_row_affected' = Min(min_row_affected, last'.arg)
           /\ max_row_affected' = Max(max_row_affected, last'.arg)
      /\ last'.op \notin {"update_cumsum", "refresh_cumsum"}
        => /\ min_row_affected' <= min_row_affected
           /\ max_row_affected' >= max_row_affected ]_vars
\* update_sum_at_row(0) on a clean bucket: the range becomes (0, 0)
C7_Witness ==
  /\ last.op = "update_sum_at_row" /\ last.arg = 0
  /\ ~last.dirty
  /\ min_row_affected = 0 /\ max_row_affected = 0

\* ==== C8 ==================================================================
\* C8: dirty-range invariant: the range is the sentinel (ROWS, 0) or
\* satisfies minRow <= maxRow < ROWS, and it is the sentinel exactly when
\* update_sum_at_row has not run since the last refresh or construction.
C8_RangeInvariant ==
  /\ IsSentinel \/ ( /\ min_row_affected <= max_row_affected
                     /\ max_row_affected < ROWS )
  /\ IsSentinel <=> ~touched
\* a range of more than one row, built by separate update_sum_at_row calls
C8_Witness ==
  /\ last.op = "update_sum_at_row"
  /\ touched
  /\ min_row_affected < max_row_affected
  /\ last.dirty

\* ==== C9 ==================================================================
\* C9: idempotence of refresh: with no update_sum_at_row since the last
\* refresh (so after update_cumsum(), or on a clean bucket),
\* update_cumsum() and refresh_cumsum() leave CumRowSums and the affected
\* range as they are.
C9_RefreshIdempotent ==
  [][ ( /\ ~touched /\ IsSentinel
        /\ last'.op \in {"update_cumsum", "refresh_cumsum"} )
      => /\ p_cum_sums' = p_cum_sums
         /\ min_row_affected' = min_row_affected
         /\ max_row_affected' = max_row_affected ]_vars
\* update_cumsum() on a bucket whose last refresh nothing has followed
C9_Witness ==
  /\ last.op = "update_cumsum"
  /\ ~last.dirty
  /\ writes > 0
  /\ p_cum_sums[ROWS] > 0

\* ==== C10 =================================================================
\* C10: monotonic query: in a clean, synced state over non-negative
\* elements, t1 < t2 (both valid thresholds) gives
\* find_upper_bound(t1) <= find_upper_bound(t2).
C10_MonotonicQuery ==
  ( /\ last.op = "find_upper_bound"
    /\ IsSentinel /\ Synced /\ CumConsistent )
  => \A t1 \in 1..(last.arg - 1) :
       FindUpperBound(p_cum_sums, FullView, t1) <= last.ret
\* a query answered in a later row than a smaller threshold's answer
C10_Witness ==
  /\ last.op = "find_upper_bound"
  /\ IsSentinel /\ Synced /\ CumConsistent
  /\ last.arg > 1
  /\ last.ret >= 2 * COLS /\ last.ret < Size
  /\ FindUpperBound(p_cum_sums, FullView, 1) < COLS

\* C11: the bucket over {1, ..., 9} with ROWS = COLS = 3 (the test's
\* 0.1, ..., 0.9 times 10) has row sums {6, 15, 24} and cumulative sums
\* {0, 6, 21, 45}, and find_upper_bound(1) = 0, find_upper_bound(7) = 3,
\* find_upper_bound(22) = 6, find_upper_bound(44) = 8
ExampleAnswer(val) ==
  CASE val = 1 -> 0 [] val = 7 -> 3 [] val = 22 -> 6 [] val = 44 -> 8
C11_ConcreteScenario ==
  /\ p_sums = [r \in RowIdx |-> IF r = 0 THEN 6 ELSE IF r = 1 THEN 15 ELSE 24]
  /\ p_cum_sums = [k \in CumIdx |-> IF k = 0 THEN 0 ELSE IF k = 1 THEN 6
                                    ELSE IF k = 2 THEN 21 ELSE 45]
  /\ (last.op = "find_upper_bound" /\ last.arg \in {1, 7, 22, 44})
       => last.ret = ExampleAnswer(last.arg)
C11_Witness ==
  /\ vec = ExampleData
  /\ last.op = "find_upper_bound"
  /\ last.arg = 44
  /\ last.ret = 8

C13_BadRowRaises ==
  [][ (last'.op = "update_sum_at_row" /\ last'.arg >= ROWS)
      => /\ last'.err = "Row index out of range"
         /\ last'.reads = {}
         /\ p_sums' = p_sums
         /\ p_cum_sums' = p_cum_sums
         /\ min_row_affected' = min_row_affected
         /\ max_row_affected' = max_row_affected ]_vars
C13_Witness ==
  /\ last.op = "update_sum_at_row"
  /\ last.arg >= ROWS
  /\ last.err # ""
  /\ last.dirty

\* C14: without ENABLE_CHECKS, find_upper_bound(val) with val negative or
\* val >= _p_cum_sums[ROWS] returns NOT_FOUND and reads no position outside
\* 0..ROWS*COLS-1
C14_NotFoundOutOfBounds ==
  (/\ last.op = "find_upper_bound"
   /\ (last.arg < 0 \/ last.arg >= p_cum_sums[ROWS]))
  => /\ last.ret = NOT_FOUND
     /\ last.reads \subseteq 0..(Size - 1)

\* C15: in a clean state whose sums match a full container of non-negative
\* elements, find_upper_bound(t) with 0 < t < _p_cum_sums[ROWS] does not
\* return NOT_FOUND: it returns an index in 0..ROWS*COLS-1, which
\* is_valid_index accepts
C15_AlwaysFound ==
  (/\ last.op = "find_upper_bound"
   /\ Synced
   /\ IsSentinel
   /\ n = Size
   /\ last.arg > 0
   /\ last.arg < p_cum_sums[ROWS])
  => /\ last.ret # NOT_FOUND
     /\ last.ret \in 0..(Size - 1)
     /\ IsValidIndex(last.ret)
C15_Witness ==
  /\ last.op = "find_upper_bound"
  /\ Synced
  /\ IsSentinel
  /\ last.arg > 0
  /\ last.arg = p_cum_sums[ROWS] - 1
  /\ last.ret \in (COLS + 1)..(Size - 1)
  /\ IsValidIndex(last.ret)

\* C16: in every reachable state, clean or dirty, over non-negative
\* elements, _p_cum_sums[0] = 0 and _p_cum_sums[k] <= _p_cum_sums[k + 1]
\* for every k in 0..ROWS-1
C16_CumNonDecreasing ==
  /\ p_cum_sums[0] = 0
  /\ \A k \in RowIdx : p_cum_sums[k] <= p_cum_sums[k + 1]
\* an incremental refresh has just lowered the total
C16_Witness ==
  /\ last.op = "refresh_cumsum"
  /\ last.dirty
  /\ writes = 1
  /\ \E i \in 0..(COLS - 1) : Ramp[i] > 0 /\ vec = [Ramp EXCEPT ![i] = 0]
  /\ Synced
  /\ p_cum_sums[ROWS] = SumTo(Ramp, Size) - 1
  /\ \A k \in RowIdx : p_cum_sums[k] <= p_cum_sums[k + 1]

\* C17: find_upper_bound (returning an index or NOT_FOUND), is_valid_index,
\* get_sums, get_cumsums, get_min_row_affected, get_max_row_affected,
\* get_rows, get_cols, get_size and print leave the row sums, the
\* cumulative sums, the affected range and the container unchanged
ReadOnlyOps ==
  {"find_upper_bound", "is_valid_index", "get_sums", "get_cumsums",
   "get_min_row_affected", "get_max_row_affected", "get_rows", "get_cols",
   "get_size", "print"}
C17_ReadOnly ==
  [][ (last'.op \in ReadOnlyOps)
      => /\ p_sums' = p_sums
         /\ p_cum_sums' = p_cum_sums
         /\ min_row_affected' = min_row_affected
         /\ max_row_affected' = max_row_affected
         /\ vec' = vec
         /\ n' = n ]_vars
\* a query that came back with NOT_FOUND from a dirty state
C17_Witness ==
  /\ last.op = "find_upper_bound"
  /\ last.err = ""
  /\ last.ret = NOT_FOUND
  /\ last.dirty
  /\ ~IsSentinel
  /\ writes = 1

\* C18: update_sum_at_row(row) sets _p_sums[row] to the sum of the row's
\* COLS elements and changes no other row sum, no cumulative sum and no
\* element of the container
C18_RowUpdateFrame ==
  [][ (last'.op = "update_sum_at_row" /\ last'.err = "")
      => /\ p_sums' = [p_sums EXCEPT ![last'.arg] =
                         SumTo(vec, (last'.arg + 1) * COLS)
                           - SumTo(vec, last'.arg * COLS)]
         /\ p_cum_sums' = p_cum_sums
         /\ vec' = vec ]_vars
\* the row's sum now matches its elements and the cumulative sums are stale
C18_Witness ==
  /\ last.op = "update_sum_at_row"
  /\ stale = {}
  /\ Synced
  /\ ~CumConsistent
  /\ p_cum_sums[last.arg + 1] - p_cum_sums[last.arg] # p_sums[last.arg]

\* C19: once the container holds its original elements again, every
\* written row has been re-aggregated and a refresh (update_cumsum or
\* refresh_cumsum) has run, the row sums and the cumulative sums have
\* exactly their contents after construction and the affected range is
\* the sentinel
RampSums ==
  [r \in RowIdx |-> SumTo(Ramp, (r + 1) * COLS) - SumTo(Ramp, r * COLS)]
RampCumSums == [k \in CumIdx |-> SumTo(Ramp, k * COLS)]
C19_RoundTrip ==
  (/\ writes >= 2
   /\ vec = Ramp
   /\ stale = {}
   /\ last.op \in {"refresh_cumsum", "update_cumsum"})
  => /\ p_sums = RampSums
     /\ p_cum_sums = RampCumSums
     /\ IsSentinel
C19_Witness ==
  /\ writes = 2
  /\ vec = Ramp
  /\ stale = {}
  /\ last.op = "refresh_cumsum"
  /\ last.dirty
  /\ p_sums = RampSums
  /\ p_cum_sums = RampCumSums
  /\ IsSentinel

\* C20: in every reachable state, for every row r outside the affected
\* range [_min_row_affected, _max_row_affected] (every row when the range
\* is the sentinel) _p_cum_sums[r + 1] - _p_cum_sums[r] = _p_sums[r], and
\* _p_cum_sums[k] is the sum of _p_sums[0..k-1] for every
\* k <= _min_row_affected
C20_OutsideRangeConsistent ==
  /\ \A r \in RowIdx :
       (r < min_row_affected \/ r > max_row_affected)
         => p_cum_sums[r + 1] - p_cum_sums[r] = p_sums[r]
  /\ \A k \in CumIdx :
       k <= min_row_affected => p_cum_sums[k] = SumTo(p_sums, k)
\* only the middle row is affected and its cumulative entry is stale
C20_Witness ==
  /\ min_row_affected = 1
  /\ max_row_affected = 1
  /\ p_cum_sums[2] - p_cum_sums[1] # p_sums[1]
  /\ p_cum_sums[1] = p_sums[0]
  /\ p_cum_sums[ROWS] - p_cum_sums[ROWS - 1] = p_sums[ROWS - 1]

\* C21: refresh_cumsum() leaves _p_sums and _p_cum_sums[0.._min_row_affected]
\* unchanged, sets _p_cum_sums[r + 1] = _p_cum_sums[r] + _p_sums[r] for the
\* rows r of the affected range, and changes every later entry by the same
\* amount: new minus old _p_cum_sums[_max_row_affected + 1]
C21_RefreshFrame ==
  [][ (last'.op = "refresh_cumsum")
      => /\ p_sums' = p_sums
         /\ \A k \in CumIdx :
              k <= min_row_affected => p_cum_sums'[k] = p_cum_sums[k]
         /\ \A r \in RowIdx :
              (min_row_affected <= r /\ r <= max_row_affected)
                => p_cum_sums'[r + 1] = p_cum_sums'[r] + p_sums[r]
         /\ \A r \in RowIdx :
              r > max_row_affected
                => p_cum_sums'[r + 1] - p_cum_sums[r + 1]
                     = p_cum_sums'[max_row_affected + 1]
                         - p_cum_sums[max_row_affected + 1] ]_vars
\* an incremental refresh after one write to the middle row
C21_Witness ==
  /\ last.op = "refresh_cumsum"
  /\ last.dirty
  /\ writes = 1
  /\ \E i \in COLS..(2 * COLS - 1), v \in Values :
       v # Ramp[i] /\ vec = [Ramp EXCEPT ![i] = v]
  /\ Synced
  /\ CumConsistent

\* C22: on a clean bucket whose sums match a full container of non-negative
\* elements, find_upper_bound(q) with 0 < q < total returns the index that
\* sequential_upper_bound(data, q) returns, also when q equals the
\* inclusive prefix sum of an element inside a row
C22_AgreesWithSequential ==
  (/\ last.op = "find_upper_bound"
   /\ Synced
   /\ IsSentinel
   /\ last.arg > 0
   /\ last.arg < p_cum_sums[ROWS])
  => last.ret = sequential_upper_bound(vec, last.arg)

\* C23: on a clean bucket whose sums match a full container of non-negative
\* elements, the index i returned by find_upper_bound(t), 0 < t < total,
\* satisfies (sum of elements 0..i-1) <= t <= (sum of elements 0..i)
C23_Bracketing ==
  (/\ last.op = "find_upper_bound"
   /\ Synced
   /\ IsSentinel
   /\ last.arg > 0
   /\ last.arg < p_cum_sums[ROWS])
  => /\ last.ret \in 0..(Size - 1)
     /\ SumTo(vec, last.ret) <= last.arg
     /\ last.arg <= SumTo(vec, last.ret + 1)
\* a threshold equal to the cumulative sum at the end of the first row
C23_Witness ==
  /\ last.op = "find_upper_bound"
  /\ Synced
  /\ IsSentinel
  /\ last.arg > 0
  /\ last.arg = p_cum_sums[1]
  /\ last.ret = COLS
  /\ SumTo(vec, last.ret) = last.arg

\* C24: in every reachable state (clean, dirty, or with written elements
\* not re-aggregated), find_upper_bound(t) with 0 < t < _p_cum_sums[ROWS]
\* throws nothing, selects a row in 0..ROWS-1, reads only elements of that
\* row and returns an index of that row or NOT_FOUND
C24_QueryStaysInRow ==
  (/\ last.op = "find_upper_bound"
   /\ last.arg > 0
   /\ last.arg < p_cum_sums[ROWS])
  => /\ last.err = ""
     /\ \E row \in RowIdx :
          /\ p_cum_sums[row] <= last.arg
          /\ last.arg < p_cum_sums[row + 1]
          /\ last.reads # {}
          /\ last.reads \subseteq (row * COLS)..(row * COLS + COLS - 1)
          /\ \/ last.ret = NOT_FOUND
             \/ last.ret \in (row * COLS)..(row * COLS + COLS - 1)
\* a whole row scanned without reaching t, its sum being stale
C24_Witness ==
  /\ last.op = "find_upper_bound"
  /\ last.err = ""
  /\ stale # {}
  /\ Cardinality(last.reads) = COLS
  /\ last.ret = NOT_FOUND

\* C25: from every reachable state, the sentinel range (ROWS, 0) and the
\* full range (0, ROWS - 1) included, refresh_cumsum subscripts _p_cum_sums
\* only within 0..ROWS and _p_sums only within 0..ROWS-1, and its two loops
\* make at most ROWS iterations together
C25_RefreshInBounds ==
  [][ (last'.op = "refresh_cumsum")
      => LET t == RefreshTrace(min_row_affected, max_row_affected)
         IN  /\ t.cum \subseteq CumIdx
             /\ t.sums \subseteq RowIdx
             /\ t.iters <= ROWS
             /\ p_cum_sums' \in [CumIdx -> Int]
             /\ IsSentinel' ]_vars
\* the first and the last element were written, both rows re-aggregated
\* (range 0..ROWS-1) and refreshed
C25_Witness ==
  /\ last.op = "refresh_cumsum"
  /\ last.dirty
  /\ IsSentinel
  /\ writes = 2
  /\ vec[0] # Ramp[0]
  /\ vec[Size - 1] # Ramp[Size - 1]
  /\ Synced
  /\ CumConsistent

\* C26: with value_type = uint16_t (arithmetic modulo 2^16) and cumulative
\* sums that fit in 16 bits, refresh_cumsum leaves exactly the
\* _p_cum_sums update_cumsum would compute, also when the affected rows'
\* total grew and diff = old - new wrapped around
C26_UnsignedRefresh ==
  (last.op = "refresh_cumsum" /\ SumTo(p_sums, ROWS) < Modulus)
  => /\ p_cum_sums = UpdateCumsumArrU(p_cum_sums, p_sums)
     /\ \A k \in CumIdx : p_cum_sums[k] = SumTo(p_sums, k)
\* diff wrapped (the total grew) and rows after the range were shifted
C26_Witness ==
  /\ last.op = "refresh_cumsum"
  /\ last.dirty
  /\ last.ret >= 2 ^ (Width - 1)
  /\ Synced
  /\ p_cum_sums[ROWS] > SumTo(Ramp, Size)
  /\ p_cum_sums[1] > SumTo(Ramp, COLS)
  /\ p_cum_sums[ROWS] = SumTo(vec, Size)

\* C27: as long as no update_sum_at_row ran while a refresh_cumsum call was
\* in progress (every call ran atomically), a bucket left with the sentinel
\* range has _p_cum_sums[r + 1] - _p_cum_sums[r] = _p_sums[r] for every row;
\* with such an interleaving a state with the sentinel range and a row
\* breaking this is reachable (the witness)
C27_CleanMismatchNeedsRace ==
  (~rc.raced /\ rc.pc = "idle" /\ IsSentinel)
  => \A r \in RowIdx : p_cum_sums[r + 1] - p_cum_sums[r] = p_sums[r]
C27_Witness ==
  /\ rc.raced
  /\ rc.pc = "idle"
  /\ IsSentinel
  /\ \E r \in RowIdx : p_cum_sums[r + 1] - p_cum_sums[r] # p_sums[r]

====
